---- MODULE Spec2Model ----
(***************************************************************************)
(* A model of the serial <-> UDP bridge: Server::new, Server::runloop with *)
(* its two scoped threads (serial->UDP, UDP->serial), and the SerialDevice *)
(* wrapper (open, try_clone, read, write, write_all, flush, Drop).         *)
(*                                                                         *)
(* The native shim and the UDP stack are the environment: every call into  *)
(* them returns one of the results the call can produce, chosen with \E.   *)
(* The bytes the environment delivers are numbered in arrival order (the   *)
(* k-th byte arriving on a source has the value k): the bridge never looks *)
(* at a byte's value when it forwards, and distinct values make a skipped, *)
(* reordered or duplicated byte visible.                                   *)
(***************************************************************************)
EXTENDS Integers, Sequences, FiniteSets, TLC

\* Longest chunk the environment delivers in one serial read / one datagram.
MaxLen == 2
\* Number of serial reads and of UDP receives the environment answers in a run.
MaxIO == 2

\* Capacity of the serial->UDP read buffer and of the UDP->serial receive buffer.
SerialBufLen == 400
UdpBufLen == 4000

\* The value `fd` holds before the native open fills it in.
NoFd == -1

\* Descriptor numbers the OS hands out (0..2 are the standard streams).
Fds == 3..5

Min(a, b) == IF a < b THEN a ELSE b

RECURSIVE Concat(_)
Concat(ss) == IF ss = <<>> THEN <<>> ELSE Head(ss) \o Concat(Tail(ss))

NonEmpty(ss) == SelectSeq(ss, LAMBDA c : c # <<>>)

IsPrefix(s, t) == Len(s) <= Len(t) /\ SubSeq(t, 1, Len(s)) = s

\* The next n bytes arriving on a source that has delivered k bytes so far.
Arriving(k, n) == [i \in 1..n |-> k + i]

VARIABLES
    cfg,            \* Config: udp.send, log.enabled, whether serial.device holds a NUL;
                    \* and whether a receiver on this host is bound to the destination
    main_pc,        \* position of the controlling thread
    main_res,       \* result of Server::new / Server::runloop as seen by _main
    exit_code,      \* process exit code once main has ended
    udp_bound,      \* the receive socket of the Server exists
    recv_sock,      \* how Server::new set the receive socket up: address, TTL applied
    open_calls,     \* number of calls of the native serial_open
    fd_master,      \* Server.serial.fd
    fd_in,          \* serial_in.fd (the handle of the serial->UDP loop)
    fd_out,         \* serial_out.fd (the handle of the UDP->serial loop)
    open_fds,       \* descriptors open at the OS level
    close_log,      \* per descriptor: the handles that called serial_close on it
    access,         \* per descriptor: the threads that read, wrote or flushed it
    s2u_pc,         \* position of the serial->UDP thread
    s2u_res,        \* its result
    fanout,         \* maybe_address_socket is Some
    resolve_count,  \* number of to_socket_addrs calls on udp.send
    send_bind,      \* the local address the sending socket was bound to
    send_ttl,       \* the configured TTL was applied to the sending socket
    s2u_buf,        \* &buf[..bytes_read] of the current iteration
    serial_reads,   \* every result of serial.read so far, in order
    udp_sent,       \* datagrams sent to the destination, in order
    u2s_pc,         \* position of the UDP->serial thread
    u2s_res,        \* its result
    u2s_buf,        \* &buf[..bytes_read] of the current iteration
    wa_buf,         \* write_all's remaining slice
    wa_calls,       \* number of self.write calls of the current write_all
    wa_done,        \* bytes the current write_all has handed to the device
    wa_zero,        \* a self.write of the current write_all reported 0 bytes
    udp_recvd,      \* every result of socket.recv so far, in order
    serial_written, \* bytes handed to the serial device, in order
    flush_count,    \* successful serial.flush calls
    log_out,        \* per loop: the slices handed to Logger::log
    fail_order      \* the loops that ended with a failure, in order of time

vars == <<cfg, main_pc, main_res, exit_code, udp_bound, fd_master, fd_in, fd_out,
          open_fds, close_log, access, s2u_pc, s2u_res, fanout, s2u_buf,
          serial_reads, udp_sent, u2s_pc, u2s_res, u2s_buf, wa_buf, wa_calls,
          wa_done, wa_zero, udp_recvd, serial_written, flush_count, log_out, fail_order,
          recv_sock, open_calls, resolve_count, send_bind, send_ttl>>

\* Written by Server::new only, and by the 'make_socket block only.
ctorVars == <<recv_sock, open_calls>>
setupVars == <<resolve_count, send_bind, send_ttl>>

mainVars == <<main_pc, main_res, exit_code, udp_bound, fd_master, ctorVars>>
s2uVars == <<s2u_pc, s2u_res, fanout, s2u_buf, serial_reads, udp_sent, setupVars>>
u2sVars == <<u2s_pc, u2s_res, u2s_buf, wa_buf, wa_calls, wa_done, wa_zero,
             udp_recvd, serial_written, flush_count>>

\* A thread's result: not there yet, Ok(()), Err(e) named by e, or the
\* thread has panicked.
Pending == "pending"
Panicked == "panicked"
IsErr(r) == r \notin {Pending, "Ok", Panicked}

Init ==
    /\ cfg \in {c \in [send : {"unset", "unresolvable", "resolvable"},
                       log : BOOLEAN, nul : BOOLEAN, rcv : BOOLEAN] :
                    \* a receiver at the destination matters only to a run that
                    \* gets to bind the sending socket
                    c.rcv => (c.send = "resolvable" /\ ~c.nul)}
    /\ main_pc = "new"
    /\ main_res = Pending
    /\ exit_code = "running"
    /\ udp_bound = FALSE
    /\ recv_sock = [addr |-> "none", ttl |-> FALSE]
    /\ open_calls = 0
    /\ resolve_count = 0
    /\ send_bind = "none"
    /\ send_ttl = FALSE
    /\ fd_master = NoFd
    /\ fd_in = NoFd
    /\ fd_out = NoFd
    /\ open_fds = {}
    /\ close_log = [f \in Fds |-> <<>>]
    /\ access = [f \in Fds |-> {}]
    /\ s2u_pc = "idle"
    /\ s2u_res = Pending
    /\ fanout = FALSE
    /\ s2u_buf = <<>>
    /\ serial_reads = <<>>
    /\ udp_sent = <<>>
    /\ u2s_pc = "idle"
    /\ u2s_res = Pending
    /\ u2s_buf = <<>>
    /\ wa_buf = <<>>
    /\ wa_calls = 0
    /\ wa_done = <<>>
    /\ wa_zero = FALSE
    /\ udp_recvd = <<>>
    /\ serial_written = <<>>
    /\ flush_count = 0
    /\ log_out = [t \in {"s2u", "u2s"} |-> <<>>]
    /\ fail_order = <<>>

(***************************************************************************)
(* SerialDevice                                                            *)
(***************************************************************************)

\* The descriptor the native open / duplicate primitive hands out: one that
\* is not open yet (the lowest free one, as open(2) and dup(2) do).
NativeDescriptor(open) == CHOOSE f \in Fds \ open : \A g \in Fds \ open : f <= g

\* SerialDevice::new on success: Self { fd } with the fd serial_open filled in.
SerialNew(open) == NativeDescriptor(open)

\* A try_clone that copies the handle instead of duplicating the descriptor.
TryCloneShared(org, open) == org

\* SerialDevice::try_clone on success: Self { fd } with the fd serial_duplicate
\* filled in for `org`.
TryClone(org, open) == NativeDescriptor(open)

\* A Drop that leaves the descriptor open.
DropLeaks(fd, who, st) == st

\* Drop for SerialDevice: serial_close(self.fd). `st` is the OS side:
\* the open descriptors and the close calls seen so far.
Drop(fd, who, st) ==
    [open |-> st.open \ {fd},
     log |-> [st.log EXCEPT ![fd] = Append(@, who)]]

OsState == [open |-> open_fds, log |-> close_log]

\* A write_all that takes a write of zero bytes for the end of the buffer.
WriteAllStepZeroOk(buf, n) ==
    IF n = 0 THEN [res |-> "Ok", buf |-> <<>>]
    ELSE [res |-> Pending, buf |-> SubSeq(buf, n + 1, Len(buf))]

\* A write_all that calls write again after a write of zero bytes.
WriteAllStepRetry(buf, n) ==
    [res |-> Pending, buf |-> SubSeq(buf, n + 1, Len(buf))]

\* One pass of write_all's loop body after self.write(buf) returned Ok(n):
\* 0 fails, n advances the slice.
WriteAllStep(buf, n) ==
    IF n = 0 THEN [res |-> "Err:failed to write whole buffer", buf |-> buf]
    ELSE [res |-> Pending, buf |-> SubSeq(buf, n + 1, Len(buf))]

\* write_all's loop condition: `while !buf.is_empty()`, else Ok(()).
WriteAllDone(buf) == buf = <<>>

(***************************************************************************)
(* Server::new and Server::runloop (the controlling thread)                *)
(***************************************************************************)

\* A path handed to the native open without the NUL check.
CStringNewUnchecked(nul) == "Ok"

\* CString::new(path)? of SerialDevice::new: an embedded NUL byte is an error.
CStringNew(nul) == IF nul THEN "Err:nul" ELSE "Ok"

\* A receive socket bound to the unspecified address instead.
ListenSocketUnspecified == [addr |-> "unspecified", ttl |-> FALSE]

\* UdpSocket::bind(&config.udp.listen)? of Server::new: the socket it makes.
\* Nothing else is done to the socket before it is stored in the Server.
ListenSocket == [addr |-> "listen", ttl |-> FALSE]

\* Server::new: bind the receive socket, open the serial device. An error
\* after the bind drops the socket again.
ServerNew ==
    /\ main_pc = "new"
    /\ \/ /\ main_res' = "Err:udp_bind"
          /\ main_pc' = "returned"
          /\ UNCHANGED <<udp_bound, fd_master, open_fds, recv_sock, open_calls>>
       \/ /\ IsErr(CStringNew(cfg.nul))
          /\ recv_sock' = ListenSocket
          /\ main_res' = CStringNew(cfg.nul)
          /\ main_pc' = "returned"
          /\ UNCHANGED <<udp_bound, fd_master, open_fds, open_calls>>
       \/ /\ ~IsErr(CStringNew(cfg.nul))
          /\ recv_sock' = ListenSocket
          /\ open_calls' = open_calls + 1
          /\ main_res' = "Err:serial_open"
          /\ main_pc' = "returned"
          /\ UNCHANGED <<udp_bound, fd_master, open_fds>>
       \/ /\ ~IsErr(CStringNew(cfg.nul))
          /\ recv_sock' = ListenSocket
          /\ open_calls' = open_calls + 1
          /\ fd_master' = SerialNew(open_fds)
          /\ open_fds' = open_fds \cup {fd_master'}
          /\ udp_bound' = TRUE
          /\ main_pc' = "clone_in"
          /\ UNCHANGED main_res
    /\ UNCHANGED <<cfg, exit_code, fd_in, fd_out, close_log, access, log_out,
                   fail_order>>
    /\ UNCHANGED <<s2uVars, u2sVars>>

\* runloop returning `res` to _main, or unwinding with a panic: `self` goes
\* out of scope, which drops the master SerialDevice and the receive socket.
RunloopReturn(res, st) ==
    LET after == Drop(fd_master, "master", st) IN
    /\ main_res' = res
    /\ main_pc' = "returned"
    /\ udp_bound' = FALSE
    /\ open_fds' = after.open
    /\ close_log' = after.log

\* self.serial.try_clone()? for serial_in.
CloneIn ==
    /\ main_pc = "clone_in"
    /\ \/ /\ RunloopReturn("Err:serial_duplicate", OsState)
          /\ UNCHANGED fd_in
       \/ /\ fd_in' = TryClone(fd_master, open_fds)
          /\ open_fds' = open_fds \cup {fd_in'}
          /\ main_pc' = "clone_out"
          /\ UNCHANGED <<main_res, udp_bound, close_log>>
    /\ UNCHANGED <<cfg, exit_code, fd_master, fd_out, access, log_out, fail_order>>
    /\ UNCHANGED <<s2uVars, u2sVars>>
    /\ UNCHANGED ctorVars

\* self.serial.try_clone()? for serial_out; on failure the serial_in just
\* made is dropped before runloop returns.
CloneOut ==
    /\ main_pc = "clone_out"
    /\ \/ /\ RunloopReturn("Err:serial_duplicate", Drop(fd_in, "serial_in", OsState))
          /\ UNCHANGED fd_out
       \/ /\ fd_out' = TryClone(fd_master, open_fds)
          /\ open_fds' = open_fds \cup {fd_out'}
          /\ main_pc' = "spawn_s2u"
          /\ UNCHANGED <<main_res, udp_bound, close_log>>
    /\ UNCHANGED <<cfg, exit_code, fd_master, fd_in, access, log_out, fail_order>>
    /\ UNCHANGED <<s2uVars, u2sVars>>
    /\ UNCHANGED ctorVars

\* scope.spawn(|| self.runloop_serial2udp(serial_in))
SpawnS2U ==
    /\ main_pc = "spawn_s2u"
    /\ main_pc' = "spawn_u2s"
    /\ s2u_pc' = "setup"
    /\ UNCHANGED <<cfg, main_res, exit_code, udp_bound, fd_master, fd_in, fd_out,
                   open_fds, close_log, access, log_out, fail_order>>
    /\ UNCHANGED <<s2u_res, fanout, s2u_buf, serial_reads, udp_sent>>
    /\ UNCHANGED u2sVars
    /\ UNCHANGED ctorVars
    /\ UNCHANGED setupVars

\* scope.spawn(|| self.runloop_udp2serial(serial_out))
SpawnU2S ==
    /\ main_pc = "spawn_u2s"
    /\ main_pc' = "join_s2u"
    /\ u2s_pc' = "recv"
    /\ UNCHANGED <<cfg, main_res, exit_code, udp_bound, fd_master, fd_in, fd_out,
                   open_fds, close_log, access, log_out, fail_order>>
    /\ UNCHANGED <<u2s_res, u2s_buf, wa_buf, wa_calls, wa_done, wa_zero, udp_recvd,
                   serial_written, flush_count>>
    /\ UNCHANGED s2uVars
    /\ UNCHANGED ctorVars

\* A join whose panic is dropped and taken for a loop that ended in Ok(()).
JoinSwallowsPanic(res) == IF res = Panicked THEN "Ok" ELSE res

\* handle.join().expect(..): the thread's Result, or a panic of the joining
\* thread when the joined thread has panicked.
JoinExpect(res) == res

\* The two joins of the scope's closure, in program order:
\* serial2udp.join()...?; udp2serial.join()...?; Ok(()).
\* A join blocks until its thread has ended; `?` leaves the closure with the
\* thread's error and a panic unwinds out of it, and the closure's outcome
\* waits in main_res for the scope.
Join ==
    /\ main_pc \in {"join_s2u", "join_u2s"}
    /\ LET done == IF main_pc = "join_s2u" THEN s2u_pc = "done" ELSE u2s_pc = "done"
           res == JoinExpect(IF main_pc = "join_s2u" THEN s2u_res ELSE u2s_res)
       IN /\ done
          /\ IF IsErr(res) \/ res = Panicked
             THEN main_res' = res /\ main_pc' = "scope_end"
             ELSE IF main_pc = "join_s2u"
                  THEN main_res' = main_res /\ main_pc' = "join_u2s"
                  ELSE main_res' = "Ok" /\ main_pc' = "scope_end"
    /\ UNCHANGED <<cfg, exit_code, udp_bound, fd_master, fd_in, fd_out, open_fds,
                   close_log, access, log_out, fail_order>>
    /\ UNCHANGED <<s2uVars, u2sVars>>
    /\ UNCHANGED ctorVars

\* What thread::scope hands on once all its threads have ended: the
\* closure's panic is resumed, a panic of a thread nobody joined makes the
\* scope panic, otherwise the closure's value is returned. serial2udp is
\* joined on every path; udp2serial is not when the closure left early.
ScopeResult(closure, unjoined) ==
    IF closure = Panicked \/ unjoined = Panicked THEN Panicked ELSE closure

\* thread::scope returns only after every thread spawned in it has ended;
\* then runloop returns (or unwinds with) the scope's outcome.
ScopeEnd ==
    /\ main_pc = "scope_end"
    /\ s2u_pc = "done"
    /\ u2s_pc = "done"
    /\ RunloopReturn(ScopeResult(main_res, u2s_res), OsState)
    /\ UNCHANGED <<cfg, exit_code, fd_master, fd_in, fd_out, access, log_out,
                   fail_order>>
    /\ UNCHANGED <<s2uVars, u2sVars>>
    /\ UNCHANGED ctorVars

\* main: print the error and process::exit(1), or fall off the end; a panic
\* of the main thread ends the process with the panic exit code.
MainExit ==
    /\ main_pc = "returned"
    /\ main_pc' = "exited"
    /\ exit_code' = IF main_res = Panicked THEN "101"
                     ELSE IF IsErr(main_res) THEN "1" ELSE "0"
    /\ UNCHANGED <<cfg, main_res, udp_bound, fd_master, fd_in, fd_out, open_fds,
                   close_log, access, log_out, fail_order>>
    /\ UNCHANGED <<s2uVars, u2sVars>>
    /\ UNCHANGED ctorVars

(***************************************************************************)
(* The forward loops                                                       *)
(***************************************************************************)

Touch(fd, who) == [access EXCEPT ![fd] = @ \cup {who}]

\* Logger::log through Server::log: only with a logger configured.
Log(who, data) ==
    IF cfg.log THEN [log_out EXCEPT ![who] = Append(@, data)] ELSE log_out

\* A serial->UDP loop that forwards whatever the read returned.
S2U_HasDataAlways(n) == TRUE

\* `if bytes_read > 0` of runloop_serial2udp.
S2U_HasData(n) == n > 0

\* A UDP->serial loop that forwards whatever the receive returned.
U2S_HasDataAlways(n) == TRUE

\* `if bytes_read > 0` of runloop_udp2serial.
U2S_HasData(n) == n > 0

\* runloop_serial2udp returns Err(e): its `serial` argument is dropped.
S2U_Fail(e) ==
    LET after == Drop(fd_in, "serial_in", OsState) IN
    /\ s2u_pc' = "done"
    /\ s2u_res' = e
    /\ fail_order' = Append(fail_order, "s2u")
    /\ open_fds' = after.open
    /\ close_log' = after.log

\* runloop_serial2udp ends other than by an error, with `res`: its `serial`
\* argument is dropped.
S2U_End(res) ==
    LET after == Drop(fd_in, "serial_in", OsState) IN
    /\ s2u_pc' = "done"
    /\ s2u_res' = res
    /\ open_fds' = after.open
    /\ close_log' = after.log
    /\ UNCHANGED fail_order

\* runloop_serial2udp unwinds with a panic.
S2U_Panic == S2U_End(Panicked)

\* A loop that takes a read of zero bytes for the end of the stream.
S2U_BreaksAtZero(n) == n = 0

\* The `loop { .. }` of runloop_serial2udp holds no break and no return: it
\* is left through `?` only.
S2U_Breaks(n) == FALSE

\* runloop_udp2serial unwinds with a panic: its `serial` argument is dropped.
U2S_Panic ==
    LET after == Drop(fd_out, "serial_out", OsState) IN
    /\ u2s_pc' = "done"
    /\ u2s_res' = Panicked
    /\ open_fds' = after.open
    /\ close_log' = after.log
    /\ UNCHANGED fail_order

\* runloop_udp2serial returns Err(e): its `serial` argument is dropped.
U2S_Fail(e) ==
    LET after == Drop(fd_out, "serial_out", OsState) IN
    /\ u2s_pc' = "done"
    /\ u2s_res' = e
    /\ fail_order' = Append(fail_order, "u2s")
    /\ open_fds' = after.open
    /\ close_log' = after.log

\* address_string.to_socket_addrs() and addresses.next(): the first address
\* the destination string resolves to, if any.
Resolve(send) == IF send = "resolvable" THEN "dest" ELSE "none"

\* UdpSocket::bind(address)?: the local address the sending socket is bound
\* to is the resolved destination address itself.
SendSocketAddr(address) == address

\* A local address another socket of this host is bound to cannot be bound.
AddrInUse(local) == local = "dest" /\ cfg.rcv

\* The 'make_socket block: resolve udp.send once, bind the sending socket,
\* set its TTL.
S2U_Setup ==
    /\ s2u_pc = "setup"
    /\ resolve_count' = IF cfg.send = "unset" THEN resolve_count ELSE resolve_count + 1
    /\ IF cfg.send = "unset" \/ Resolve(cfg.send) = "none"
       THEN /\ fanout' = FALSE
            /\ s2u_pc' = "read"
            /\ UNCHANGED <<s2u_res, fail_order, open_fds, close_log, send_bind, send_ttl>>
       ELSE LET local == SendSocketAddr(Resolve(cfg.send)) IN
            \/ /\ AddrInUse(local)
               /\ S2U_Fail("Err:udp_bind_send:AddrInUse")
               /\ UNCHANGED <<fanout, send_bind, send_ttl>>
            \/ /\ ~AddrInUse(local)
               /\ S2U_Fail("Err:udp_bind_send")
               /\ UNCHANGED <<fanout, send_bind, send_ttl>>
            \/ /\ ~AddrInUse(local)
               /\ send_bind' = local
               /\ S2U_Fail("Err:udp_set_ttl")
               /\ UNCHANGED <<fanout, send_ttl>>
            \/ /\ ~AddrInUse(local)
               /\ send_bind' = local
               /\ send_ttl' = TRUE
               /\ fanout' = TRUE
               /\ s2u_pc' = "read"
               /\ UNCHANGED <<s2u_res, fail_order, open_fds, close_log>>
    /\ UNCHANGED <<cfg, fd_in, fd_out, access, log_out, s2u_buf, serial_reads, udp_sent>>
    /\ UNCHANGED <<mainVars, u2sVars>>

\* A socket_send_to that sends whether or not a destination is there.
SocketSendToAlways(some, sent, buf) == Append(sent, buf)

\* The socket_send_to closure: one datagram to the destination when
\* maybe_address_socket is Some, nothing otherwise.
SocketSendTo(some, sent, buf) == IF some THEN Append(sent, buf) ELSE sent

\* serial.read(&mut buf)? and the test of bytes_read. A native read that
\* reports more bytes than the buffer holds makes &buf[..bytes_read] panic.
S2U_Read ==
    /\ s2u_pc = "read"
    /\ access' = Touch(fd_in, "s2u")
    /\ \/ /\ S2U_Fail("Err:serial_read")
          /\ UNCHANGED <<s2u_buf, serial_reads>>
       \/ /\ S2U_Panic
          /\ UNCHANGED <<s2u_buf, serial_reads>>
       \/ /\ Len(serial_reads) < MaxIO
          /\ \E n \in 0..Min(MaxLen, SerialBufLen) :
                LET chunk == Arriving(Len(Concat(serial_reads)), n) IN
                /\ serial_reads' = Append(serial_reads, chunk)
                /\ IF S2U_Breaks(n)
                   THEN /\ S2U_End("Ok")
                        /\ UNCHANGED s2u_buf
                   ELSE /\ IF S2U_HasData(n)
                           THEN s2u_buf' = chunk /\ s2u_pc' = "send"
                           ELSE s2u_buf' = s2u_buf /\ s2u_pc' = "read"
                        /\ UNCHANGED <<s2u_res, fail_order, open_fds, close_log>>
    /\ UNCHANGED <<cfg, fd_in, fd_out, log_out, fanout, udp_sent>>
    /\ UNCHANGED <<mainVars, u2sVars>>
    /\ UNCHANGED setupVars

\* socket_send_to(&buf[..bytes_read])?; self.log(&buf[..bytes_read]).
S2U_Forward ==
    /\ s2u_pc = "send"
    /\ \/ /\ fanout
          /\ S2U_Fail("Err:udp_send")
          /\ UNCHANGED <<udp_sent, log_out>>
       \/ /\ udp_sent' = SocketSendTo(fanout, udp_sent, s2u_buf)
          /\ log_out' = Log("s2u", s2u_buf)
          /\ s2u_pc' = "read"
          /\ UNCHANGED <<s2u_res, fail_order, open_fds, close_log>>
    /\ UNCHANGED <<cfg, fd_in, fd_out, access, fanout, s2u_buf, serial_reads>>
    /\ UNCHANGED <<mainVars, u2sVars>>
    /\ UNCHANGED setupVars

\* self.socket.recv(&mut buf)? and the test of bytes_read; with data, the
\* entry into serial.write_all(&buf[..bytes_read]).
U2S_Recv ==
    /\ u2s_pc = "recv"
    /\ \/ /\ U2S_Fail("Err:udp_recv")
          /\ UNCHANGED <<u2s_buf, wa_buf, wa_calls, wa_done, wa_zero, udp_recvd>>
       \/ /\ Len(udp_recvd) < MaxIO
          /\ \E n \in 0..Min(MaxLen, UdpBufLen) :
                LET dgram == Arriving(Len(Concat(udp_recvd)), n) IN
                /\ udp_recvd' = Append(udp_recvd, dgram)
                /\ IF U2S_HasData(n)
                   THEN /\ u2s_buf' = dgram
                        /\ wa_buf' = dgram
                        /\ wa_calls' = 0
                        /\ wa_done' = <<>>
                        /\ wa_zero' = FALSE
                        /\ u2s_pc' = IF WriteAllDone(dgram) THEN "flush" ELSE "write"
                   ELSE UNCHANGED <<u2s_buf, wa_buf, wa_calls, wa_done, wa_zero, u2s_pc>>
          /\ UNCHANGED <<u2s_res, fail_order, open_fds, close_log>>
    /\ UNCHANGED <<cfg, fd_in, fd_out, access, log_out, serial_written, flush_count>>
    /\ UNCHANGED <<mainVars, s2uVars>>

\* One self.write(buf) of write_all and the match on its result. The native
\* write hands k bytes to the device and then fails, or hands n over and
\* reports n; one that reports more than the slice holds makes &buf[n..]
\* panic.
U2S_Write ==
    /\ u2s_pc = "write"
    /\ access' = Touch(fd_out, "u2s")
    /\ wa_calls' = wa_calls + 1
    /\ \/ /\ \E k \in 0..Len(wa_buf) :
                /\ serial_written' = serial_written \o SubSeq(wa_buf, 1, k)
                /\ wa_done' = wa_done \o SubSeq(wa_buf, 1, k)
          /\ U2S_Fail("Err:serial_write")
          /\ UNCHANGED <<wa_buf, wa_zero>>
       \/ /\ serial_written' = serial_written \o wa_buf
          /\ wa_done' = wa_done \o wa_buf
          /\ U2S_Panic
          /\ UNCHANGED <<wa_buf, wa_zero>>
       \/ \E n \in 0..Len(wa_buf) :
             LET step == WriteAllStep(wa_buf, n) IN
             /\ serial_written' = serial_written \o SubSeq(wa_buf, 1, n)
             /\ wa_done' = wa_done \o SubSeq(wa_buf, 1, n)
             /\ wa_zero' = (n = 0)
             /\ wa_buf' = step.buf
             /\ IF IsErr(step.res)
                THEN U2S_Fail(step.res)
                ELSE /\ u2s_pc' = IF step.res = "Ok" \/ WriteAllDone(step.buf)
                                  THEN "flush" ELSE "write"
                     /\ UNCHANGED <<u2s_res, fail_order, open_fds, close_log>>
    /\ UNCHANGED <<cfg, fd_in, fd_out, log_out, u2s_buf, udp_recvd, flush_count>>
    /\ UNCHANGED <<mainVars, s2uVars>>

\* serial.flush()?; self.log(&buf[..bytes_read]).
U2S_Flush ==
    /\ u2s_pc = "flush"
    /\ access' = Touch(fd_out, "u2s")
    /\ \/ /\ U2S_Fail("Err:serial_flush")
          /\ UNCHANGED <<flush_count, log_out>>
       \/ /\ flush_count' = flush_count + 1
          /\ log_out' = Log("u2s", u2s_buf)
          /\ u2s_pc' = "recv"
          /\ UNCHANGED <<u2s_res, fail_order, open_fds, close_log>>
    /\ UNCHANGED <<cfg, fd_in, fd_out, u2s_buf, wa_buf, wa_calls, wa_done, wa_zero,
                   udp_recvd, serial_written>>
    /\ UNCHANGED <<mainVars, s2uVars>>

MainStep == ServerNew \/ CloneIn \/ CloneOut \/ SpawnS2U \/ SpawnU2S \/ Join
            \/ ScopeEnd \/ MainExit

Next == \/ ServerNew \/ CloneIn \/ CloneOut \/ SpawnS2U \/ SpawnU2S \/ Join
        \/ ScopeEnd \/ MainExit
        \/ S2U_Setup \/ S2U_Read \/ S2U_Forward
        \/ U2S_Recv \/ U2S_Write \/ U2S_Flush

Spec == Init /\ [][Next]_vars

\* The scheduler runs every thread that can take a step. A serial read and a
\* UDP receive block until the environment answers, which it need not do:
\* they are not among the fair steps.
FairSpec ==
    /\ Spec
    /\ WF_vars(MainStep)
    /\ WF_vars(S2U_Setup \/ S2U_Forward)
    /\ WF_vars(U2S_Write \/ U2S_Flush)

(***************************************************************************)
(* Properties                                                              *)
(***************************************************************************)

RunloopReturned == main_pc \in {"returned", "exited"} /\ fd_master # NoFd

\* C1: whenever a forward loop has ended with an I/O failure, runloop
\* eventually returns a failure to its caller, also when the other loop
\* never fails and stays blocked on its read or receive.
C1_FailureEventuallyReturned ==
    (fail_order # <<>>) ~> (RunloopReturned /\ IsErr(main_res))

\* C2: once one forward loop has ended with a failure, the other performs no
\* further forwarding: no serial write or flush, no datagram sent.
C2_NoForwardingAfterFailure ==
    [][/\ IsErr(s2u_res) =>
            /\ serial_written' = serial_written
            /\ flush_count' = flush_count
       /\ IsErr(u2s_res) => udp_sent' = udp_sent]_vars

\* C3: when both loops have ended with a failure, runloop returns the
\* failure of the loop that failed first in time.
C3_FirstFailureReturned ==
    (RunloopReturned /\ Len(fail_order) = 2) =>
        main_res = (IF fail_order[1] = "s2u" THEN s2u_res ELSE u2s_res)

\* write_all has returned Ok(()): the loop is at the flush, or past it.
WriteAllReturnedOk == u2s_pc \in {"flush", "recv"} \/ u2s_res = "Err:serial_flush"

\* C4: write_all returns Ok only when every byte of the buffer has been
\* handed to the device, in order; what it hands over is always a prefix of
\* the buffer, and a strict prefix never ends in Ok.
C4_WriteAllOkMeansWholeBuffer ==
    /\ IsPrefix(wa_done, u2s_buf)
    /\ WriteAllReturnedOk => wa_done = u2s_buf

\* write_all returned Ok for a two-byte datagram after a short write.
C4_Witness ==
    /\ u2s_pc = "flush"
    /\ Len(u2s_buf) = 2
    /\ wa_calls = 2
    /\ wa_done = u2s_buf

\* C5: write_all terminates: every write call but a failing last one shrinks
\* the remaining slice, so it makes at most len(buf) calls; and the first
\* write reporting zero bytes ends it with "failed to write whole buffer",
\* with no write after it.
C5_WriteAllTerminates ==
    /\ wa_calls <= Len(u2s_buf)
    /\ u2s_pc = "write" =>
          /\ wa_buf # <<>>
          /\ wa_calls + Len(wa_buf) <= Len(u2s_buf)
    /\ wa_zero <=> u2s_res = "Err:failed to write whole buffer"
    /\ wa_zero => u2s_pc = "done"

\* A short write of one byte, then a write of zero bytes: write_all failed.
C5_Witness ==
    /\ wa_zero
    /\ wa_calls = 2
    /\ Len(wa_done) = 1
    /\ u2s_pc = "done"

Obtained == {fd_master, fd_in, fd_out} \ {NoFd}

\* The SerialDevice that owns descriptor f.
OwnerOf(f) ==
    IF f = fd_master THEN "master"
    ELSE IF f = fd_in THEN "serial_in" ELSE "serial_out"

\* C6: every descriptor obtained by a successful open or duplicate is closed
\* at most once, and only by the SerialDevice that owns it; a descriptor
\* never obtained is never closed; the three handles hold three descriptors;
\* and once runloop has returned (all handles dropped) every descriptor
\* obtained has been closed exactly once and none is open.
C6_DescriptorsClosedExactlyOnce ==
    /\ \A f \in Fds :
          /\ Len(close_log[f]) <= 1
          /\ close_log[f] # <<>> => f \in Obtained /\ close_log[f] = <<OwnerOf(f)>>
          /\ f \in open_fds <=> f \in Obtained /\ close_log[f] = <<>>
    /\ fd_in # NoFd => fd_in # fd_master
    /\ fd_out # NoFd => fd_out \notin {fd_master, fd_in}
    /\ main_pc \in {"returned", "exited"} =>
          /\ open_fds = {}
          /\ \A f \in Obtained : Len(close_log[f]) = 1

\* A whole run: both duplicates made, both loops ended, runloop returned.
C6_Witness ==
    /\ main_pc = "returned"
    /\ fd_out # NoFd
    /\ Len(fail_order) = 2
    /\ \A f \in Obtained : Len(close_log[f]) = 1

\* C7: the two loops hold distinct descriptors, no descriptor is read,
\* written or flushed by more than one thread, and the master descriptor is
\* never read, written or flushed.
C7_DescriptorsNotShared ==
    /\ (fd_in # NoFd /\ fd_out # NoFd) => fd_in # fd_out
    /\ \A f \in Fds : Cardinality(access[f]) <= 1
    /\ fd_master # NoFd => access[fd_master] = {}

\* Both loops have used their descriptors.
C7_Witness ==
    /\ fd_in # NoFd /\ fd_out # NoFd
    /\ access[fd_in] = {"s2u"}
    /\ access[fd_out] = {"u2s"}

\* C8: a receive that returns a datagram of size 0 writes nothing to the
\* serial device, flushes nothing, logs nothing, touches no descriptor, ends
\* with no error, and leaves the loop at its next receive.
C8_EmptyDatagramIgnored ==
    [][(/\ u2s_pc = "recv"
        /\ Len(udp_recvd') = Len(udp_recvd) + 1
        /\ udp_recvd'[Len(udp_recvd')] = <<>>)
       => /\ u2s_pc' = "recv"
          /\ UNCHANGED <<serial_written, flush_count, log_out, u2s_res, wa_calls,
                         access, fail_order>>]_vars

\* An empty datagram was received and the loop is back at its receive.
C8_Witness ==
    /\ udp_recvd # <<>>
    /\ udp_recvd[Len(udp_recvd)] = <<>>
    /\ u2s_pc = "recv"
    /\ u2s_res = Pending

\* C9: the bytes written to the serial device are a prefix of the
\* concatenation of the datagrams received, in arrival order, each of at most
\* 4000 bytes; and whenever the loop is past a write_all (at the flush, at
\* the next receive) every datagram received so far is written in full.
C9_Udp2SerialInOrder ==
    /\ \A i \in 1..Len(udp_recvd) : Len(udp_recvd[i]) <= UdpBufLen
    /\ IsPrefix(serial_written, Concat(udp_recvd))
    /\ WriteAllReturnedOk => serial_written = Concat(udp_recvd)

\* Two non-empty datagrams were forwarded, the first one in two writes.
C9_Witness ==
    /\ Len(NonEmpty(udp_recvd)) = 2
    /\ u2s_pc = "recv"
    /\ flush_count = 2
    /\ Len(serial_written) >= 3

\* C10: with fan-out enabled the datagrams sent are, in order, the non-empty
\* serial read results (each of at most 400 bytes), one datagram per
\* non-empty read and none for an empty one: all of them when the loop is at
\* its read, all but the one in hand otherwise; the same slices go to the
\* logger; and after a read of zero bytes the loop is at its read again (or
\* has ended in a later read), never ended by the empty read.
C10_Serial2UdpInOrder ==
    fanout =>
        /\ \A i \in 1..Len(serial_reads) : Len(serial_reads[i]) <= SerialBufLen
        /\ IsPrefix(udp_sent, NonEmpty(serial_reads))
        /\ Len(NonEmpty(serial_reads)) - Len(udp_sent) <= 1
        /\ s2u_pc = "read" => udp_sent = NonEmpty(serial_reads)
        /\ log_out["s2u"] = (IF cfg.log THEN udp_sent ELSE <<>>)
        /\ (serial_reads # <<>> /\ serial_reads[Len(serial_reads)] = <<>>) =>
              \/ s2u_pc = "read"
              \/ s2u_res \in {"Err:serial_read", Panicked}

\* An empty read, then a chunk of two bytes sent as one datagram.
C10_Witness ==
    /\ fanout
    /\ serial_reads = << <<>>, <<1, 2>> >>
    /\ udp_sent = << <<1, 2>> >>
    /\ s2u_pc = "read"

\* C11: with no destination configured, or one that does not resolve at loop
\* start, the serial->UDP loop never has fan-out: it sends no datagram and
\* binds no sending socket, resolves at most once (never with no destination
\* configured), ends only through a failed serial read, and hands every
\* non-empty chunk it has dealt with to the logger when logging is enabled.
C11_NoFanoutWithoutDestination ==
    /\ resolve_count <= 1
    /\ (Resolve(cfg.send) = "none") =>
          /\ ~fanout
          /\ udp_sent = <<>>
          /\ send_bind = "none"
          /\ cfg.send = "unset" => resolve_count = 0
          /\ s2u_res \in {Pending, "Err:serial_read", Panicked}
          /\ IsPrefix(log_out["s2u"], NonEmpty(serial_reads))
          /\ s2u_pc = "read" =>
                log_out["s2u"] = (IF cfg.log THEN NonEmpty(serial_reads) ELSE <<>>)

\* An unresolvable destination: two chunks read and logged, nothing sent.
C11_Witness ==
    /\ cfg.send = "unresolvable"
    /\ resolve_count = 1
    /\ cfg.log
    /\ Len(log_out["s2u"]) = 2
    /\ s2u_pc = "read"
    /\ udp_sent = <<>>

\* The end-to-end scenario: a destination that resolves, and a receiver
\* socket of this host bound to it.
Scenario == cfg.send = "resolvable" /\ cfg.rcv

\* C12: in the end-to-end scenario the serial->UDP loop does not fail on
\* its way to forwarding: it reads the serial handle with fan-out on, so the
\* bytes written to the serial write-end can reach the receiver.
C12_EndToEndScenario ==
    Scenario =>
        /\ s2u_res # "Err:udp_bind_send:AddrInUse"
        /\ s2u_pc \in {"read", "send"} => fanout

\* C14: the sending socket is bound to a local ephemeral port, an address
\* other than the destination, with the configured TTL applied, and its bind
\* never fails on a receiver being bound to the destination.
C14_SendSocketEphemeral ==
    /\ send_bind # "none" =>
          /\ send_bind = "ephemeral"
          /\ send_bind # Resolve(cfg.send)
    /\ fanout => send_ttl
    /\ s2u_res # "Err:udp_bind_send:AddrInUse"

\* C13: a forward loop never returns Ok(()): once ended it holds an I/O
\* error (or it has panicked); so the second join is never reached, runloop
\* never returns Ok(()), and the process never exits with code zero.
C13_NeverOk ==
    /\ s2u_res # "Ok" /\ u2s_res # "Ok"
    /\ s2u_pc = "done" => (IsErr(s2u_res) \/ s2u_res = Panicked)
    /\ u2s_pc = "done" => (IsErr(u2s_res) \/ u2s_res = Panicked)
    /\ main_pc # "join_u2s"
    /\ main_res # "Ok"
    /\ exit_code # "0"
    /\ main_pc = "exited" => exit_code \in {"1", "101"}

\* The process has exited after both loops ran and ended with I/O errors.
C13_Witness ==
    /\ main_pc = "exited"
    /\ exit_code = "1"
    /\ IsErr(s2u_res) /\ IsErr(u2s_res)
    /\ serial_reads # <<>> /\ udp_recvd # <<>>

ServerConstructed == fd_master # NoFd

\* C15 as claimed: after a successful Server::new the receive socket is
\* bound to the configured listen address and has the configured TTL applied.
C15_ListenSocketBoundWithTtl ==
    ServerConstructed => (recv_sock.addr = "listen" /\ recv_sock.ttl)

\* C15: after a successful Server::new the receive socket is bound to the
\* configured listen address and lives until runloop has returned; the
\* configured TTL is not applied to it, only to the sending socket of the
\* serial->UDP loop.
C15_ListenSocketBound ==
    /\ ServerConstructed =>
          /\ recv_sock.addr = "listen"
          /\ ~recv_sock.ttl
          /\ udp_bound <=> main_pc \notin {"returned", "exited"}
    /\ fanout => send_ttl

\* The server is constructed and its loops run with fan-out on.
C15_Witness ==
    /\ ServerConstructed
    /\ udp_bound
    /\ fanout
    /\ udp_recvd # <<>>

\* C16: no forward loop runs before both duplicates exist; and when the
\* first or the second try_clone fails, runloop returns that error with no
\* loop ever started, no serial or UDP I/O done, no descriptor used, and a
\* first duplicate already obtained closed exactly once, by its own handle.
C16_DuplicateFailure ==
    /\ (s2u_pc # "idle" \/ u2s_pc # "idle") => (fd_in # NoFd /\ fd_out # NoFd)
    /\ main_res = "Err:serial_duplicate" =>
          /\ main_pc \in {"returned", "exited"}
          /\ s2u_pc = "idle" /\ u2s_pc = "idle"
          /\ serial_reads = <<>> /\ udp_sent = <<>>
          /\ udp_recvd = <<>> /\ serial_written = <<>> /\ flush_count = 0
          /\ \A f \in Fds : access[f] = {}
          /\ fd_out = NoFd
          /\ fd_in # NoFd => close_log[fd_in] = <<"serial_in">>
          /\ open_fds = {}

\* The second try_clone failed after the first had succeeded.
C16_Witness ==
    /\ main_res = "Err:serial_duplicate"
    /\ fd_in # NoFd
    /\ fd_out = NoFd

\* C17: a panic of a forward loop is never swallowed: once the serial->UDP
\* loop has been joined its panic is the outcome of the closure, the second
\* join is never reached past it, and whenever runloop has ended after a
\* loop panicked it has ended with a panic, never with Ok(()) or an Err, and
\* the process exits with the panic code.
C17_PanicNotSwallowed ==
    /\ (main_pc = "scope_end" /\ s2u_res = Panicked) => main_res = Panicked
    /\ main_pc = "join_u2s" => s2u_res # Panicked
    /\ (main_pc \in {"returned", "exited"}
        /\ (s2u_res = Panicked \/ u2s_res = Panicked)) => main_res = Panicked
    /\ (main_pc = "exited" /\ (s2u_res = Panicked \/ u2s_res = Panicked)) =>
          exit_code = "101"

\* The UDP->serial loop panicked and the serial->UDP loop failed: the join
\* of serial2udp left the closure with the error, the scope panicked.
C17_Witness ==
    /\ u2s_res = Panicked
    /\ IsErr(s2u_res)
    /\ main_pc = "exited"
    /\ main_res = Panicked

\* C19: a device path with an embedded NUL byte makes Server::new fail before
\* the native open is called: no call of serial_open, no descriptor, no
\* SerialDevice, no close, and the run ends with the error (or with the
\* error of the socket bind that precedes it).
C19_NulPathFailsBeforeOpen ==
    cfg.nul =>
        /\ open_calls = 0
        /\ fd_master = NoFd /\ fd_in = NoFd /\ fd_out = NoFd
        /\ open_fds = {}
        /\ \A f \in Fds : close_log[f] = <<>>
        /\ main_pc \in {"new", "returned", "exited"}
        /\ main_pc # "new" => main_res \in {"Err:udp_bind", "Err:nul"}

\* The open of a path with a NUL byte has failed and the process has exited.
C19_Witness ==
    /\ cfg.nul
    /\ main_res = "Err:nul"
    /\ exit_code = "1"

====
